---- MODULE Spec2Model ----
(***************************************************************************)
(* A model of the listing scoring and ranking pipeline: the attribute      *)
(* reasoner, the embedding indexer and taste modeler, the value scorer     *)
(* and the rank fusion.                                                    *)
(*                                                                         *)
(* Representation.  A Python str is a sequence of one-character strings.   *)
(* A float is an exact rational [k |-> "num", n, d] in lowest terms with   *)
(* d > 0, or NaN; rounding of IEEE doubles is not modelled.  A DataFrame   *)
(* is a record of its row index labels, its column names and its rows.     *)
(* Embeddings are one-dimensional: a unit vector is +1 or -1 and the norm  *)
(* of a vector is its absolute value.                                      *)
(***************************************************************************)
EXTENDS Integers, Sequences, FiniteSets, TLC

VARIABLES req, res, df, item_embeddings, model_loads

vars == <<req, res, df, item_embeddings, model_loads>>

(***************************************************************************)
(* Python values                                                           *)
(***************************************************************************)
None == [k |-> "none"]

NaN == [k |-> "nan"]

Str(s) == [k |-> "str", s |-> s]

List(v) == [k |-> "list", v |-> v]

Abs(i) == IF i < 0 THEN -i ELSE i

RECURSIVE Gcd(_, _)
Gcd(a, b) == IF b = 0 THEN a ELSE Gcd(b, a % b)

\* the rational n/d in lowest terms, d > 0
Num(n, d) ==
    LET s == IF d < 0 THEN -1 ELSE 1
        g == Gcd(Abs(n), Abs(d))
    IN  [k |-> "num", n |-> (s * n) \div g, d |-> (s * d) \div g]

Int2F(i) == Num(i, 1)

IsNum(a) == a.k = "num"

\* float arithmetic: NaN propagates; x/0 is NaN for x = 0 and an infinity otherwise
FAdd(a, b) == IF IsNum(a) /\ IsNum(b) THEN Num(a.n * b.d + b.n * a.d, a.d * b.d) ELSE NaN

FSub(a, b) == IF IsNum(a) /\ IsNum(b) THEN Num(a.n * b.d - b.n * a.d, a.d * b.d) ELSE NaN

FMul(a, b) == IF IsNum(a) /\ IsNum(b) THEN Num(a.n * b.n, a.d * b.d) ELSE NaN

FDiv(a, b) ==
    IF IsNum(a) /\ IsNum(b)
    THEN IF b.n # 0 THEN Num(a.n * b.d, a.d * b.n)
         ELSE IF a.n = 0 THEN NaN
         ELSE [k |-> "inf", n |-> IF a.n > 0 THEN 1 ELSE -1]
    ELSE NaN

\* float comparisons: every comparison with NaN is false
FLt(a, b) == IsNum(a) /\ IsNum(b) /\ a.n * b.d < b.n * a.d

FLe(a, b) == IsNum(a) /\ IsNum(b) /\ a.n * b.d <= b.n * a.d

(***************************************************************************)
(* Python str operations                                                   *)
(***************************************************************************)
UpperChars == <<"A", "B", "C", "D", "E", "F", "G", "H", "I", "J", "K", "L", "M", "N", "O", "P", "Q", "R", "S", "T", "U", "V", "W", "X", "Y", "Z">>

LowerChars == <<"a", "b", "c", "d", "e", "f", "g", "h", "i", "j", "k", "l", "m", "n", "o", "p", "q", "r", "s", "t", "u", "v", "w", "x", "y", "z">>

LowerChar(c) ==
    IF \E i \in 1..Len(UpperChars) : UpperChars[i] = c
    THEN LowerChars[CHOOSE i \in 1..Len(UpperChars) : UpperChars[i] = c]
    ELSE c

\* str.lower()
StrLower(s) == [i \in 1..Len(s) |-> LowerChar(s[i])]

\* token in text
StrContains(text, token) ==
    \E i \in 0..(Len(text) - Len(token)) : SubSeq(text, i + 1, i + Len(token)) = token

\* str.endswith(c) for a one-character c
StrEndsWith(s, c) == Len(s) > 0 /\ s[Len(s)] = c

\* str.rstrip(c): every trailing occurrence of the character c is removed
RECURSIVE StrRStrip(_, _)
StrRStrip(s, c) ==
    IF Len(s) > 0 /\ s[Len(s)] = c THEN StrRStrip(SubSeq(s, 1, Len(s) - 1), c) ELSE s

\* str.strip(): leading and trailing blanks are removed
RECURSIVE StrStrip(_)
StrStrip(s) ==
    IF Len(s) > 0 /\ s[1] = " " THEN StrStrip(Tail(s))
    ELSE IF Len(s) > 0 /\ s[Len(s)] = " " THEN StrStrip(SubSeq(s, 1, Len(s) - 1))
    ELSE s

\* str(x) of a cell holding a str, None or a float NaN
PyStr(x) ==
    CASE x.k = "str" -> x.s
      [] x.k = "none" -> <<"N", "o", "n", "e">>
      [] x.k = "nan" -> <<"n", "a", "n">>

\* truth value of a cell: None and the empty str are false
Truthy(x) ==
    CASE x.k = "none" -> FALSE
      [] x.k = "str" -> x.s # <<>>
      [] x.k = "list" -> x.v # <<>>
      [] x.k = "num" -> x.n # 0
      [] OTHER -> TRUE

\* x or y
PyOr(x, y) == IF Truthy(x) THEN x ELSE y

\* row.get(col, default)
RowGet(row, col, default) == IF col \in DOMAIN row THEN row[col] ELSE default

SetMin(S) == CHOOSE x \in S : \A y \in S : x <= y

(***************************************************************************)
(* Attribute reasoner                                                      *)
(***************************************************************************)
COLOR_WORDS ==
    <<<<"b", "l", "a", "c", "k">>,
    <<"w", "h", "i", "t", "e">>,
    <<"c", "r", "e", "a", "m">>,
    <<"r", "e", "d">>,
    <<"b", "r", "o", "w", "n">>,
    <<"b", "l", "u", "e">>,
    <<"g", "r", "e", "e", "n">>,
    <<"b", "e", "i", "g", "e">>,
    <<"t", "a", "n">>,
    <<"n", "a", "v", "y">>,
    <<"g", "r", "e", "y">>,
    <<"g", "r", "a", "y">>,
    <<"p", "i", "n", "k">>,
    <<"y", "e", "l", "l", "o", "w">>,
    <<"p", "u", "r", "p", "l", "e">>,
    <<"o", "r", "a", "n", "g", "e">>>>

CATEGORY_WORDS ==
    <<<<"b", "o", "o", "t", "s">>,
    <<"b", "o", "o", "t">>,
    <<"c", "o", "a", "t">>,
    <<"j", "a", "c", "k", "e", "t">>,
    <<"d", "r", "e", "s", "s">>,
    <<"t", "r", "o", "u", "s", "e", "r", "s">>,
    <<"p", "a", "n", "t", "s">>,
    <<"j", "e", "a", "n", "s">>,
    <<"s", "k", "i", "r", "t">>,
    <<"t", "o", "p">>,
    <<"b", "l", "o", "u", "s", "e">>,
    <<"s", "h", "i", "r", "t">>,
    <<"s", "w", "e", "a", "t", "e", "r">>,
    <<"h", "o", "o", "d", "i", "e">>>>

STYLE_WORDS ==
    <<[label |-> <<"m", "i", "n", "i", "m", "a", "l", "i", "s", "t">>,
      words |-> <<<<"m", "i", "n", "i", "m", "a", "l">>,
                 <<"m", "i", "n", "i", "m", "a", "l", "i", "s", "t">>,
                 <<"s", "i", "m", "p", "l", "e">>,
                 <<"c", "l", "e", "a", "n">>>>],
    [label |-> <<"v", "i", "n", "t", "a", "g", "e">>,
      words |-> <<<<"v", "i", "n", "t", "a", "g", "e">>,
                 <<"r", "e", "t", "r", "o">>>>],
    [label |-> <<"p", "a", "r", "t", "y">>,
      words |-> <<<<"p", "a", "r", "t", "y", "w", "e", "a", "r">>,
                 <<"p", "a", "r", "t", "y">>,
                 <<"n", "i", "g", "h", "t", " ", "o", "u", "t">>,
                 <<"c", "l", "u", "b">>>>],
    [label |-> <<"w", "o", "r", "k", "w", "e", "a", "r">>,
      words |-> <<<<"w", "o", "r", "k", "w", "e", "a", "r">>,
                 <<"o", "f", "f", "i", "c", "e">>,
                 <<"t", "a", "i", "l", "o", "r", "e", "d">>>>],
    [label |-> <<"s", "t", "a", "t", "e", "m", "e", "n", "t">>,
      words |-> <<<<"s", "t", "a", "t", "e", "m", "e", "n", "t">>,
                 <<"b", "o", "l", "d">>>>],
    [label |-> <<"c", "l", "a", "s", "s", "i", "c">>,
      words |-> <<<<"c", "l", "a", "s", "s", "i", "c">>,
                 <<"t", "i", "m", "e", "l", "e", "s", "s">>>>],
    [label |-> <<"s", "t", "r", "e", "e", "t", "w", "e", "a", "r">>,
      words |-> <<<<"s", "t", "r", "e", "e", "t", "w", "e", "a", "r">>,
                 <<"c", "a", "s", "u", "a", "l">>,
                 <<"r", "e", "l", "a", "x", "e", "d">>>>]>>

CONDITION_MAP ==
    <<[label |-> <<"l", "i", "k", "e", " ", "n", "e", "w">>,
      words |-> <<<<"l", "i", "k", "e", " ", "n", "e", "w">>,
                 <<"n", "e", "w", " ", "w", "i", "t", "h", " ", "t", "a", "g", "s">>,
                 <<"n", "w", "t">>,
                 <<"e", "x", "c", "e", "l", "l", "e", "n", "t">>>>],
    [label |-> <<"v", "e", "r", "y", " ", "g", "o", "o", "d">>,
      words |-> <<<<"v", "e", "r", "y", " ", "g", "o", "o", "d">>,
                 <<"v", "g", "c">>>>],
    [label |-> <<"g", "o", "o", "d">>,
      words |-> <<<<"g", "o", "o", "d">>,
                 <<"g", "e", "n", "t", "l", "y", " ", "w", "o", "r", "n">>,
                 <<"l", "i", "g", "h", "t", "l", "y", " ", "w", "o", "r", "n">>>>],
    [label |-> <<"f", "a", "i", "r">>,
      words |-> <<<<"f", "a", "i", "r">>,
                 <<"w", "o", "r", "n">>,
                 <<"u", "s", "e", "d">>>>]>>

_extract_first_match(text, vocab) ==
    LET text_l == StrLower(text)
        hits == {i \in 1..Len(vocab) : StrContains(text_l, vocab[i])}
    IN  IF hits = {} THEN None ELSE Str(vocab[SetMin(hits)])

extract_color(text) == _extract_first_match(text, COLOR_WORDS)

extract_category(text) ==
    LET raw == _extract_first_match(text, CATEGORY_WORDS)
    IN  IF raw = None THEN None
        ELSE IF StrEndsWith(raw.s, "s") THEN Str(StrRStrip(raw.s, "s"))
        ELSE raw

\* the labels, in declaration order, one of whose words occurs in text_l
RECURSIVE MatchingLabels(_, _)
MatchingLabels(text_l, table) ==
    IF table = <<>> THEN <<>>
    ELSE LET e == Head(table)
             hit == \E i \in 1..Len(e.words) : StrContains(text_l, e.words[i])
         IN  (IF hit THEN <<e.label>> ELSE <<>>) \o MatchingLabels(text_l, Tail(table))

extract_style_tags(text) ==
    LET found == MatchingLabels(StrLower(text), STYLE_WORDS)
    IN  IF found = <<>> THEN None ELSE List(found)

normalize_condition(text) ==
    LET found == MatchingLabels(StrLower(text), CONDITION_MAP)
    IN  IF found = <<>> THEN None ELSE Str(Head(found))

infer_attributes_from_row(row) ==
    LET title == PyStr(RowGet(row, "title", Str(<<>>)))
        desc == PyStr(RowGet(row, "description", Str(<<>>)))
        cond == PyStr(RowGet(row, "condition_note", Str(<<>>)))
        cat_hint == RowGet(row, "category_hint", None)
        text == title \o <<" ">> \o desc \o <<" ">> \o cond
    IN  [color |-> extract_color(text),
         category |-> PyOr(extract_category(text), cat_hint),
         style_tags |-> extract_style_tags(text),
         condition_norm |-> normalize_condition(text)]

(***************************************************************************)
(* DataFrame                                                               *)
(***************************************************************************)
NRows(t) == Len(t.rows)

\* the row pandas fills in where an aligned frame has no row: NaN in every column
NaNRow(cols) == [c \in cols |-> NaN]

\* the position of a label in an index, 0 when the index does not hold it
PosOf(index, label) ==
    IF \E j \in 1..Len(index) : index[j] = label
    THEN CHOOSE j \in 1..Len(index) : index[j] = label
    ELSE 0

\* pd.concat([df.reset_index(drop=True), records], axis=1) where records is the
\* result of df.apply(..., axis=1, result_type="expand") and so carries df's own
\* index: rows are aligned on the index labels, the result holds the union of
\* the labels 0..n-1 and df's labels, and a row a side lacks is filled with NaN
ConcatReset(t, records, rcols) ==
    LET n == NRows(t)
        extra == SelectSeq(t.index, LAMBDA l : l < 0 \/ l >= n)
        labels == [i \in 1..n |-> i - 1] \o extra
        left(l) == IF 0 <= l /\ l < n THEN t.rows[l + 1] ELSE NaNRow(t.cols)
        right(l) == IF PosOf(t.index, l) = 0 THEN NaNRow(rcols)
                    ELSE records[PosOf(t.index, l)]
    IN  [index |-> labels,
         cols |-> t.cols \cup rcols,
         rows |-> [i \in 1..Len(labels) |-> left(labels[i]) @@ right(labels[i])]]

\* df_out[col] = values (a positional assignment of an array to a copy)
WithColumn(t, col, values) ==
    [index |-> t.index,
     cols |-> t.cols \cup {col},
     rows |-> [i \in 1..NRows(t) |-> (col :> values[i]) @@ t.rows[i]]]

\* df[col].to_numpy()
Column(t, col) == [i \in 1..NRows(t) |-> t.rows[i][col]]

AttrCols == {"color", "category", "style_tags", "condition_norm"}

\* on a frame without rows df.apply yields no attribute columns
apply_attribute_reasoner(t) ==
    ConcatReset(t,
                [i \in 1..NRows(t) |-> infer_attributes_from_row(t.rows[i])],
                IF NRows(t) = 0 THEN {} ELSE AttrCols)

(***************************************************************************)
(* Value scorer                                                            *)
(***************************************************************************)
BRAND_STRENGTH ==
    <<[key |-> <<"Z", "a", "r", "a">>, val |-> Num(60, 100)],
      [key |-> <<"B", "a", "n", "a", "n", "a", " ", "R", "e", "p", "u", "b", "l", "i", "c">>,
       val |-> Num(65, 100)],
      [key |-> <<"E", "v", "e", "r", "l", "a", "n", "e">>, val |-> Num(80, 100)],
      [key |-> <<"U", "n", "k", "n", "o", "w", "n">>, val |-> Num(40, 100)]>>

MATERIAL_SCORE ==
    <<[key |-> <<"l", "e", "a", "t", "h", "e", "r">>, val |-> Num(90, 100)],
      [key |-> <<"w", "o", "o", "l">>, val |-> Num(85, 100)],
      [key |-> <<"c", "o", "t", "t", "o", "n">>, val |-> Num(70, 100)],
      [key |-> <<"c", "o", "t", "t", "o", "n", " ", "b", "l", "e", "n", "d">>,
       val |-> Num(65, 100)],
      [key |-> <<"p", "o", "l", "y", "e", "s", "t", "e", "r">>, val |-> Num(40, 100)]>>

CONDITION_SCORE ==
    <<[key |-> <<"l", "i", "k", "e", " ", "n", "e", "w">>, val |-> Num(95, 100)],
      [key |-> <<"v", "e", "r", "y", " ", "g", "o", "o", "d">>, val |-> Num(85, 100)],
      [key |-> <<"g", "o", "o", "d">>, val |-> Num(70, 100)],
      [key |-> <<"f", "a", "i", "r">>, val |-> Num(50, 100)]>>

\* dict.get(key, default)
DictGet(dict, key, default) ==
    IF \E i \in 1..Len(dict) : dict[i].key = key
    THEN dict[CHOOSE i \in 1..Len(dict) : dict[i].key = key].val
    ELSE default

\* the builtins min(a, b) and max(a, b): the first argument unless the second
\* compares smaller (larger), so a NaN second argument is never chosen
PyMin(a, b) == IF FLt(b, a) THEN b ELSE a

PyMax(a, b) == IF FLt(a, b) THEN b ELSE a

_compute_discount_ratio(price, original_price) ==
    IF original_price = None \/ FLe(original_price, Int2F(0))
    THEN Int2F(0)
    ELSE LET disc == FDiv(FSub(original_price, price), original_price)
         IN  PyMax(Int2F(0), PyMin(Int2F(1), disc))

\* float(x) succeeds on a float; float(None) raises TypeError
FloatOk(x) == x.k \in {"num", "nan"}

_compute_component_scores(row) ==
    LET brand == StrStrip(PyStr(PyOr(RowGet(row, "brand", Str(<<>>)), Str(<<>>))))
        material == StrStrip(StrLower(PyStr(PyOr(RowGet(row, "material", Str(<<>>)),
                                                 Str(<<>>)))))
        condition_norm == RowGet(row, "condition_norm", None)
        price == RowGet(row, "price", Int2F(0))
        original_price == RowGet(row, "original_price", Int2F(0))
    IN  IF ~FloatOk(price) \/ ~FloatOk(original_price)
        THEN [status |-> "TypeError"]
        ELSE [status |-> "ok",
              comps |->
                [discount_ratio |-> _compute_discount_ratio(price, original_price),
                 brand_score |-> DictGet(BRAND_STRENGTH, brand, Num(5, 10)),
                 material_score |-> DictGet(MATERIAL_SCORE, material, Num(5, 10)),
                 condition_score |->
                     IF condition_norm.k = "str"
                     THEN DictGet(CONDITION_SCORE, condition_norm.s, Num(6, 10))
                     ELSE Num(6, 10)]]

CompCols == {"discount_ratio", "brand_score", "material_score", "condition_score"}

\* the numbers among the values of an array (np.nanmin and np.nanmax skip NaN)
FMinOf(S) == CHOOSE x \in S : \A y \in S : FLe(x, y)

FMaxOf(S) == CHOOSE x \in S : \A y \in S : FLe(y, x)

\* MinMaxScaler(feature_range=(0, 100)).fit_transform(x): NaN is ignored by the
\* fit and kept by the transform, and a zero data range is replaced by 1
MinMaxScaler(x) ==
    LET nums == {x[i] : i \in {j \in 1..Len(x) : IsNum(x[j])}}
        data_min == IF nums = {} THEN NaN ELSE FMinOf(nums)
        data_max == IF nums = {} THEN NaN ELSE FMaxOf(nums)
        data_range == FSub(data_max, data_min)
        scale_ == FDiv(Int2F(100), IF data_range = Int2F(0) THEN Int2F(1) ELSE data_range)
        min_ == FSub(Int2F(0), FMul(data_min, scale_))
    IN  [i \in 1..Len(x) |-> FAdd(FMul(x[i], scale_), min_)]

add_smart_buy_index(t, w) ==
    LET comp == [i \in 1..NRows(t) |-> _compute_component_scores(t.rows[i])]
        df_out == ConcatReset(t, [i \in 1..NRows(t) |-> comp[i].comps], CompCols)
        raw == [i \in 1..NRows(df_out) |->
                  FAdd(FAdd(FAdd(FMul(w.disc, df_out.rows[i].discount_ratio),
                                 FMul(w.brand, df_out.rows[i].brand_score)),
                            FMul(w.mat, df_out.rows[i].material_score)),
                       FMul(w.cond, df_out.rows[i].condition_score))]
        with_raw == WithColumn(df_out, "smart_buy_index_raw", raw)
    IN  IF \E i \in 1..NRows(t) : comp[i].status # "ok"
        THEN [status |-> "TypeError"]
        ELSE IF NRows(t) = 0
        THEN [status |-> "KeyError"]
        ELSE [status |-> "ok",
              table |-> WithColumn(with_raw, "smart_buy_index", MinMaxScaler(raw))]

(***************************************************************************)
(* Embedding indexer and taste modeler                                     *)
(***************************************************************************)
FAbs(a) == IF IsNum(a) THEN Num(Abs(a.n), a.d) ELSE a

\* util.cos_sim of two one-dimensional vectors: each is divided by its norm
\* (a zero vector stays zero) and the two are multiplied
CosSim(a, b) ==
    IF a = Int2F(0) \/ b = Int2F(0) THEN Int2F(0)
    ELSE FMul(FDiv(a, FAbs(a)), FDiv(b, FAbs(b)))

\* build_item_text: "{title} {description} Brand: {brand}"
build_item_text(row) ==
    PyStr(RowGet(row, "title", Str(<<>>))) \o <<" ">>
    \o PyStr(RowGet(row, "description", Str(<<>>)))
    \o <<" ", "B", "r", "a", "n", "d", ":", " ">>
    \o PyStr(RowGet(row, "brand", Str(<<>>)))

\* model.encode(text, normalize_embeddings=True): the embedding model is outside
\* the repository; it is a fixed function from a text to a unit vector
Encode(text) == IF Len(text) % 2 = 0 THEN Int2F(1) ELSE Int2F(-1)

\* the embeddings encode_items returns for a table
EncodeTable(t) == [i \in 1..NRows(t) |-> Encode(build_item_text(t.rows[i]))]

RECURSIVE FSum(_)
FSum(x) == IF x = <<>> THEN Int2F(0) ELSE FAdd(Head(x), FSum(Tail(x)))

\* df["item_id"].isin(liked_ids)
LikedMask(t, liked_ids) ==
    [i \in 1..NRows(t) |->
        LET id == t.rows[i]["item_id"]
        IN  IsNum(id) /\ id.d = 1 /\ id.n \in liked_ids]

\* item_embeddings[mask]
Masked(x, mask) == SelectSeq([i \in 1..Len(x) |-> [v |-> x[i], m |-> mask[i]]],
                             LAMBDA e : e.m)

\* compute_user_taste_vector without the final division by the norm
TasteVectorNotNormalized(emb, t, liked_ids) ==
    LET mask == [i \in 1..NRows(t) |->
                    IsNum(t.rows[i]["item_id"]) /\ t.rows[i]["item_id"].n \in liked_ids]
        sel == SelectSeq([i \in 1..Len(emb) |-> [v |-> emb[i], m |-> mask[i]]],
                         LAMBDA e : e.m)
    IN  IF ~\E i \in 1..Len(mask) : mask[i]
        THEN [status |-> "ValueError: No liked_ids found in DataFrame."]
        ELSE [status |-> "ok",
              vec |-> FDiv(FSum([i \in 1..Len(sel) |-> sel[i].v]), Int2F(Len(sel)))]

compute_user_taste_vector(emb, t, liked_ids) ==
    LET mask == LikedMask(t, liked_ids)
        sel == Masked(emb, mask)
        vec == FDiv(FSum([i \in 1..Len(sel) |-> sel[i].v]), Int2F(Len(sel)))
        norm == FAbs(vec)
    IN  IF "item_id" \notin t.cols THEN [status |-> "KeyError"]
        ELSE IF ~\E i \in 1..Len(mask) : mask[i]
        THEN [status |-> "ValueError: No liked_ids found in DataFrame."]
        ELSE IF Len(mask) # Len(emb) THEN [status |-> "IndexError"]
        ELSE IF norm = Int2F(0) THEN [status |-> "ok", vec |-> vec]
        ELSE [status |-> "ok", vec |-> FDiv(vec, norm)]

compute_taste_scores(user_vec, emb) == [i \in 1..Len(emb) |-> CosSim(user_vec, emb[i])]

add_taste_scores(t, emb, liked_ids) ==
    LET user_vec == compute_user_taste_vector(emb, t, liked_ids)
    IN  IF user_vec.status # "ok" THEN user_vec
        ELSE [status |-> "ok",
              table |-> WithColumn(t, "taste_score", compute_taste_scores(user_vec.vec, emb)),
              vec |-> user_vec.vec]

(***************************************************************************)
(* Rank fusion                                                             *)
(***************************************************************************)
\* the query embedding q_emb is model.encode([query]); the similarities are
\* one per item embedding
_compute_query_sims(q_emb, emb) == [i \in 1..Len(emb) |-> CosSim(q_emb, emb[i])]

\* ndarray.min() and ndarray.max(): NaN when the array holds a NaN
NpMin(x) ==
    IF \E i \in 1..Len(x) : ~IsNum(x[i]) THEN NaN ELSE FMinOf({x[i] : i \in 1..Len(x)})

NpMax(x) ==
    IF \E i \in 1..Len(x) : ~IsNum(x[i]) THEN NaN ELSE FMaxOf({x[i] : i \in 1..Len(x)})

\* _minmax_normalize without the test for a degenerate range
MinmaxNormalizeUnguarded(x) ==
    IF Len(x) = 0 THEN [status |-> "ValueError"]
    ELSE [status |-> "ok",
          value |-> [i \in 1..Len(x) |->
                        FDiv(FSub(x[i], NpMin(x)), FSub(NpMax(x), NpMin(x)))]]

\* x.min() of an empty array raises ValueError
_minmax_normalize(x) ==
    LET x_min == NpMin(x)
        x_max == NpMax(x)
    IN  IF Len(x) = 0 THEN [status |-> "ValueError"]
        ELSE IF FLe(x_max, x_min)
        THEN [status |-> "ok", value |-> [i \in 1..Len(x) |-> Int2F(0)]]
        ELSE [status |-> "ok",
              value |-> [i \in 1..Len(x) |-> FDiv(FSub(x[i], x_min), FSub(x_max, x_min))]]

\* the orders df.sort_values(col, ascending=False) can return.  The sort kind is
\* the default "quicksort", which is not stable: rows with equal keys come out
\* in any order.  NaN keys are placed last, in their original order.
SortOrders(keys) ==
    {p \in Permutations(1..Len(keys)) :
        \A i, j \in 1..Len(keys) :
            i < j =>
                /\ IsNum(keys[p[j]]) => FLe(keys[p[j]], keys[p[i]])
                /\ (~IsNum(keys[p[i]]) /\ ~IsNum(keys[p[j]])) => p[i] < p[j]}

\* the rows of t in the order p, cut to the first top_k (DataFrame.head)
TakeRows(t, p, top_k) ==
    LET m == IF top_k < Len(p) THEN top_k ELSE Len(p)
    IN  [index |-> [i \in 1..m |-> t.index[p[i]]],
         cols |-> t.cols,
         rows |-> [i \in 1..m |-> t.rows[p[i]]]]

\* the results naive_rank can return
naive_rank(t, emb, q_emb, top_k) ==
    LET q_sims == _compute_query_sims(q_emb, emb)
        df_out == WithColumn(t, "query_sim", q_sims)
    IN  IF Len(q_sims) # NRows(t) THEN {[status |-> "ValueError"]}
        ELSE {[status |-> "ok", table |-> TakeRows(df_out, p, top_k)] :
                 p \in SortOrders(q_sims)}

\* the results bias_aware_rank can return
bias_aware_rank(t, emb, q_emb, f, top_k) ==
    LET q_sims_norm == _minmax_normalize(_compute_query_sims(q_emb, emb))
        taste_norm == _minmax_normalize(Column(t, "taste_score"))
        smart == [i \in 1..NRows(t) |-> FDiv(t.rows[i]["smart_buy_index"], Int2F(100))]
        final_score == [i \in 1..NRows(t) |->
                          FAdd(FAdd(FMul(f.alpha, q_sims_norm.value[i]),
                                    FMul(f.beta, taste_norm.value[i])),
                               FMul(f.gamma, smart[i]))]
        df_out == WithColumn(WithColumn(t, "query_sim", q_sims_norm.value),
                             "final_score", final_score)
    IN  IF q_sims_norm.status # "ok" THEN {[status |-> "ValueError"]}
        ELSE IF "taste_score" \notin t.cols THEN {[status |-> "KeyError"]}
        ELSE IF taste_norm.status # "ok" THEN {[status |-> "ValueError"]}
        ELSE IF "smart_buy_index" \notin t.cols THEN {[status |-> "KeyError"]}
        ELSE IF Len(emb) # NRows(t) THEN {[status |-> "ValueError"]}
        ELSE {[status |-> "ok", table |-> TakeRows(df_out, p, top_k)] :
                 p \in SortOrders(final_score)}

(***************************************************************************)
(* Inputs                                                                  *)
(***************************************************************************)
MaxRows == 3

MaxEncodeCalls == 2

RawCols == {"item_id", "title", "brand", "material", "condition_note", "price",
            "original_price"}

Listing(id, title, brand, material, cond, price, original_price) ==
    [item_id |-> Int2F(id), title |-> Str(title), brand |-> Str(brand),
     material |-> Str(material), condition_note |-> Str(cond),
     price |-> price, original_price |-> original_price]

L1 == Listing(1, <<"B", "l", "a", "c", "k", " ", "L", "e", "a", "t", "h", "e", "r", " ",
                   "B", "o", "o", "t", "s">>,
              <<"E", "v", "e", "r", "l", "a", "n", "e">>,
              <<"l", "e", "a", "t", "h", "e", "r">>,
              <<"l", "i", "k", "e", " ", "n", "e", "w">>, Int2F(40), Int2F(100))

L2 == Listing(2, <<"R", "e", "d", " ", "C", "o", "t", "t", "o", "n", " ", "D", "r", "e",
                   "s", "s">>,
              <<>>, <<>>, <<>>, Int2F(30), Int2F(30))

L3 == Listing(3, <<"N", "a", "v", "y", " ", "W", "o", "o", "l", " ", "C", "o", "a", "t">>,
              <<>>, <<"w", "o", "o", "l">>, <<>>, Int2F(60), Int2F(120))

L4 == Listing(4, <<"B", "l", "u", "e", " ", "J", "e", "a", "n", "s">>,
              <<"Z", "a", "r", "a">>, <<"C", "o", "t", "t", "o", "n", " ">>,
              <<"g", "e", "n", "t", "l", "y", " ", "w", "o", "r", "n">>, Int2F(25), Int2F(0))

Catalogue == {L1, L2, L3, L4}

\* the row indexes of an n-row table: the default 0..n-1, the index left after
\* the first row of a longer table was filtered out, and the index of a table
\* whose rows were put in reverse order
DefaultIndex(n) == [i \in 1..n |-> i - 1]

FilteredIndex(n) == [i \in 1..n |-> i]

ReversedIndex(n) == [i \in 1..n |-> n - i]

\* the tables of at most MaxRows rows drawn from rows, with the indexes shapes[n]
TablesOver(rows, cols, shapes) ==
    UNION {{[index |-> ix, cols |-> cols, rows |-> r] :
               ix \in shapes[n], r \in [1..n -> rows]} : n \in 0..MaxRows}

AllShapes == [n \in 0..MaxRows |-> {DefaultIndex(n), FilteredIndex(n), ReversedIndex(n)}]

RankShapes == [n \in 0..MaxRows |-> {DefaultIndex(n), ReversedIndex(n)}]

DefaultShape == [n \in 0..MaxRows |-> {DefaultIndex(n)}]

RawTables == TablesOver(Catalogue, RawCols, AllShapes)

NoTable == [index |-> <<>>, cols |-> {}, rows |-> <<>>]

Texts ==
    {CATEGORY_WORDS[i] : i \in 1..Len(CATEGORY_WORDS)}
    \cup {r.title.s : r \in Catalogue}
    \cup {<<>>,
          <<"R", "e", "d", " ", "L", "e", "a", "t", "h", "e", "r", " ", "B", "o", "o", "t",
            "s", ",", " ", "s", "i", "z", "e", " ", "8">>,
          <<"S", "i", "l", "k", " ", "S", "c", "a", "r", "f">>,
          <<"T", "R", "O", "U", "S", "E", "R", "S">>}

\* rows for the component scores: the price and every kind of original price,
\* the column being absent included
Prices == {Int2F(40), Int2F(0), Int2F(150), Int2F(-10)}

OriginalPrices == {Int2F(100), Int2F(0), Int2F(-50), NaN, None}

ScoreRows ==
    {[price |-> p] : p \in Prices}
    \cup {[price |-> p, original_price |-> o] : p \in Prices, o \in OriginalPrices}

Weights ==
    {[disc |-> Num(4, 10), brand |-> Num(2, 10), mat |-> Num(2, 10), cond |-> Num(2, 10)],
     [disc |-> Int2F(0), brand |-> Int2F(0), mat |-> Int2F(0), cond |-> Int2F(0)],
     [disc |-> Int2F(-1), brand |-> Int2F(2), mat |-> Int2F(0), cond |-> Int2F(3)]}

ArrayValues == {Int2F(5), Int2F(-1), Num(1, 2)}

Arrays == UNION {[1..n -> ArrayValues] : n \in 0..MaxRows}

\* tables that carry only the listing identifier
IdRows == {[item_id |-> Int2F(id)] : id \in 1..3}

IdTables(shapes) == TablesOver(IdRows, {"item_id"}, shapes)

UnitVectors == {Int2F(1), Int2F(-1)}

LikedSets == {{}, {1}, {1, 2}, {2, 3}, {9}, {1, 9}}

\* tables that already carry the taste score and the smart buy index
ScoredRow(id, taste, smart) ==
    [item_id |-> Int2F(id), taste_score |-> taste, smart_buy_index |-> Int2F(smart)]

ScoredRows ==
    {ScoredRow(1, Int2F(1), 100), ScoredRow(2, Int2F(-1), 0),
     ScoredRow(3, Int2F(1), 100), ScoredRow(4, Num(1, 2), 50)}

ScoredTables == TablesOver(ScoredRows, {"item_id", "taste_score", "smart_buy_index"},
                           RankShapes)

\* the embedding of each row of a table passed to a ranking call: listings with
\* an odd identifier lie in one direction, the others in the opposite one
EmbeddingsOf(t) ==
    [i \in 1..NRows(t) |-> IF t.rows[i]["item_id"].n % 2 = 1 THEN Int2F(1) ELSE Int2F(-1)]

FusionWeights ==
    {[alpha |-> Num(4, 10), beta |-> Num(3, 10), gamma |-> Num(3, 10)],
     [alpha |-> Int2F(1), beta |-> Int2F(0), gamma |-> Int2F(0)],
     [alpha |-> Int2F(-1), beta |-> Int2F(2), gamma |-> Int2F(1)]}

TopKs == 0..(MaxRows + 1)

Pending == [status |-> "pending"]

(***************************************************************************)
(* Specification Spec: one call of a public function on drawn arguments.   *)
(* df and item_embeddings hold the table and the embeddings passed in, req *)
(* the other arguments, res the value returned or the exception raised.    *)
(***************************************************************************)
Start(r, t, e) ==
    /\ req = r
    /\ df = t
    /\ item_embeddings = e
    /\ res = Pending
    /\ model_loads = 0

Init ==
    \/ \E x \in Texts : Start([op |-> "extract_category", text |-> x], NoTable, <<>>)
    \/ \E r \in ScoreRows :
          Start([op |-> "_compute_component_scores", row |-> r], NoTable, <<>>)
    \/ \E t \in RawTables : Start([op |-> "apply_attribute_reasoner"], t, <<>>)
    \/ \E t \in RawTables, w \in Weights :
          Start([op |-> "add_smart_buy_index", w |-> w], t, <<>>)
    \/ \E x \in Arrays : Start([op |-> "_minmax_normalize", x |-> x], NoTable, <<>>)
    \/ \E t \in IdTables(DefaultShape), l \in LikedSets :
          \E e \in [1..NRows(t) -> UnitVectors] :
              Start([op |-> "compute_user_taste_vector", liked_ids |-> l], t, e)
    \/ \E t \in IdTables(RankShapes), q \in UnitVectors, k \in TopKs :
          Start([op |-> "naive_rank", q_emb |-> q, top_k |-> k], t, EmbeddingsOf(t))
    \/ \E t \in ScoredTables, q \in UnitVectors, f \in FusionWeights, k \in TopKs :
          Start([op |-> "bias_aware_rank", q_emb |-> q, f |-> f, top_k |-> k],
                t, EmbeddingsOf(t))

\* the call op is made, and returns value
Call(op) == req.op = op /\ res = Pending

Return(value) == res' = value /\ UNCHANGED <<req, df, item_embeddings, model_loads>>

ExtractCategory ==
    /\ Call("extract_category")
    /\ Return([status |-> "ok", value |-> extract_category(req.text)])

ComputeComponentScores ==
    /\ Call("_compute_component_scores")
    /\ Return(_compute_component_scores(req.row))

ApplyAttributeReasoner ==
    /\ Call("apply_attribute_reasoner")
    /\ Return([status |-> "ok", table |-> apply_attribute_reasoner(df)])

AddSmartBuyIndex ==
    /\ Call("add_smart_buy_index")
    /\ Return(add_smart_buy_index(df, req.w))

MinmaxNormalize ==
    /\ Call("_minmax_normalize")
    /\ Return(_minmax_normalize(req.x))

ComputeUserTasteVector ==
    /\ Call("compute_user_taste_vector")
    /\ Return(compute_user_taste_vector(item_embeddings, df, req.liked_ids))

NaiveRank ==
    /\ Call("naive_rank")
    /\ \E r \in naive_rank(df, item_embeddings, req.q_emb, req.top_k) : Return(r)

BiasAwareRank ==
    /\ Call("bias_aware_rank")
    /\ \E r \in bias_aware_rank(df, item_embeddings, req.q_emb, req.f, req.top_k) :
          Return(r)

Next ==
    \/ ExtractCategory
    \/ ComputeComponentScores
    \/ ApplyAttributeReasoner
    \/ AddSmartBuyIndex
    \/ MinmaxNormalize
    \/ ComputeUserTasteVector
    \/ NaiveRank
    \/ BiasAwareRank

Spec == Init /\ [][Next]_vars

(***************************************************************************)
(* Properties of a single call (specification Spec)                        *)
(***************************************************************************)
Returned(op) == req.op = op /\ res # Pending

\* the position in the input table df of the i-th row of a returned table
InputPos(t, i) == PosOf(df.index, t.index[i])

\* C7: extract_category returns the first token of the category vocabulary, in
\* declared order, that occurs in the case-folded text, with a single trailing
\* "s" removed from it, and None when no token occurs
C7_CategoryDropsOneTrailingS ==
    Returned("extract_category") =>
        LET text_l == StrLower(req.text)
            hits == {i \in 1..Len(CATEGORY_WORDS) : StrContains(text_l, CATEGORY_WORDS[i])}
            token == CATEGORY_WORDS[SetMin(hits)]
        IN  IF hits = {} THEN res.value = None
            ELSE IF token[Len(token)] = "s"
            THEN res.value = Str(SubSeq(token, 1, Len(token) - 1))
            ELSE res.value = Str(token)

\* C3: discount_ratio is (original_price - price) / original_price clamped to
\* [0, 1], and exactly 0 when original_price is absent, null, not a number, zero
\* or negative; computing it never raises
C3_DiscountRatioZeroWhenMissing ==
    Returned("_compute_component_scores") =>
        LET p == req.row["price"]
            o == RowGet(req.row, "original_price", None)
            ratio == FDiv(FSub(o, p), o)
        IN  /\ res.status = "ok"
            /\ res.comps.discount_ratio =
                  IF ~IsNum(o) \/ FLe(o, Int2F(0)) THEN Int2F(0)
                  ELSE IF FLt(ratio, Int2F(0)) THEN Int2F(0)
                  ELSE IF FLt(Int2F(1), ratio) THEN Int2F(1)
                  ELSE ratio

\* the columns cols of row a are those of row b
SameOn(a, b, cols) == \A c \in cols : a[c] = b[c]

\* C10: apply_attribute_reasoner and add_smart_buy_index return one row per
\* input listing, in input order, each row holding the listing's own fields and
\* the values derived from them, whatever the row index of the input table
C10_RowsPreserved ==
    /\ (Returned("apply_attribute_reasoner") /\ NRows(df) > 0) =>
          /\ NRows(res.table) = NRows(df)
          /\ \A i \in 1..NRows(df) :
                /\ SameOn(res.table.rows[i], df.rows[i], df.cols)
                /\ SameOn(res.table.rows[i], infer_attributes_from_row(df.rows[i]), AttrCols)
    /\ (Returned("add_smart_buy_index") /\ NRows(df) > 0) =>
          /\ res.status = "ok"
          /\ NRows(res.table) = NRows(df)
          /\ \A i \in 1..NRows(df) :
                /\ SameOn(res.table.rows[i], df.rows[i], df.cols)
                /\ SameOn(res.table.rows[i], _compute_component_scores(df.rows[i]).comps,
                          CompCols)

InRange(x, lo, hi) == IsNum(x) /\ FLe(Int2F(lo), x) /\ FLe(x, Int2F(hi))

\* C6: for a non-empty batch and any weights, add_smart_buy_index gives every
\* listing a smart_buy_index in [0, 100]
C6_SmartBuyIndexInRange ==
    (Returned("add_smart_buy_index") /\ NRows(df) > 0) =>
        /\ res.status = "ok"
        /\ \A i \in 1..NRows(res.table) :
              InRange(res.table.rows[i]["smart_buy_index"], 0, 100)

AllEqualNumbers(x) == Len(x) > 0 /\ \A i \in 1..Len(x) : IsNum(x[i]) /\ x[i] = x[1]

AllZero(x) == \A i \in 1..Len(x) : x[i] = Int2F(0)

\* C5: a min-max rescale of an array whose values are all identical returns all
\* zeros: _minmax_normalize on its array, the query similarity column of
\* bias_aware_rank, and smart_buy_index when every smart_buy_index_raw agrees
C5_DegenerateRangeGivesZeros ==
    /\ (Returned("_minmax_normalize") /\ AllEqualNumbers(req.x)) =>
          res.status = "ok" /\ Len(res.value) = Len(req.x) /\ AllZero(res.value)
    /\ (Returned("add_smart_buy_index") /\ res.status = "ok"
            /\ AllEqualNumbers(Column(res.table, "smart_buy_index_raw"))) =>
          AllZero(Column(res.table, "smart_buy_index"))
    /\ (Returned("bias_aware_rank") /\ res.status = "ok"
            /\ AllEqualNumbers(_compute_query_sims(req.q_emb, item_embeddings))) =>
          AllZero(Column(res.table, "query_sim"))

C5_Witness ==
    /\ Returned("_minmax_normalize")
    /\ Len(req.x) >= 2
    /\ AllEqualNumbers(req.x)
    /\ req.x[1] = Int2F(5)
    /\ AllZero(res.value)

RECURSIVE SumOver(_, _)
SumOver(x, S) ==
    IF S = {} THEN Int2F(0)
    ELSE LET i == CHOOSE j \in S : TRUE IN FAdd(x[i], SumOver(x, S \ {i}))

Matching == {i \in 1..NRows(df) : df.rows[i]["item_id"].n \in req.liked_ids}

\* C4: compute_user_taste_vector raises "no liked ids found" exactly when no
\* listing's identifier is in liked_ids; otherwise it returns the mean of the
\* matching embeddings divided by its norm, or the zero vector when the mean is
\* zero, and liked ids that match no listing are ignored
C4_TasteVectorOrNoLikedError ==
    Returned("compute_user_taste_vector") =>
        LET mean == FDiv(SumOver(item_embeddings, Matching), Int2F(Cardinality(Matching)))
        IN  /\ res.status = "ValueError: No liked_ids found in DataFrame." <=> Matching = {}
            /\ Matching # {} =>
                  /\ res.status = "ok"
                  /\ res.vec = IF mean = Int2F(0) THEN Int2F(0)
                               ELSE IF FLt(mean, Int2F(0)) THEN Int2F(-1)
                               ELSE Int2F(1)

C4_Witness ==
    /\ Returned("compute_user_taste_vector")
    /\ res.status = "ok"
    /\ Cardinality(Matching) = 3
    /\ 9 \in req.liked_ids
    /\ SumOver(item_embeddings, Matching) = Int2F(-1)
    /\ res.vec = Int2F(-1)

\* the sort key of the i-th row of a ranking
RankKey(t, i) == IF req.op = "naive_rank" THEN t.rows[i]["query_sim"]
                 ELSE t.rows[i]["final_score"]

\* C2: the sort of naive_rank and bias_aware_rank is stable: rows with equal
\* keys keep the relative order they had in the input table
C2_RankSortIsStable ==
    ((Returned("naive_rank") \/ Returned("bias_aware_rank")) /\ res.status = "ok") =>
        \A i, j \in 1..NRows(res.table) :
            (i < j /\ RankKey(res.table, i) = RankKey(res.table, j)) =>
                InputPos(res.table, i) < InputPos(res.table, j)

\* the min-max rescale of x at position i, all zeros on a constant array
Rescaled(x, i) ==
    LET S == {x[j] : j \in 1..Len(x)}
    IN  IF FMaxOf(S) = FMinOf(S) THEN Int2F(0)
        ELSE FDiv(FSub(x[i], FMinOf(S)), FSub(FMaxOf(S), FMinOf(S)))

\* the final score of the row at position i of the input table
FusedScore(i) ==
    FAdd(FAdd(FMul(req.f.alpha, Rescaled(_compute_query_sims(req.q_emb, item_embeddings), i)),
              FMul(req.f.beta, Rescaled(Column(df, "taste_score"), i))),
         FMul(req.f.gamma, FDiv(df.rows[i]["smart_buy_index"], Int2F(100))))

\* C9: bias_aware_rank returns min(top_k, n) rows of an n-row table, each with
\* the final score of its own signals, in non-increasing order of final score,
\* and no row left out scores strictly higher than a returned row
C9_BiasAwareTopK ==
    Returned("bias_aware_rank") =>
        /\ res.status = "ok"
        /\ LET t == res.table
               kept == {InputPos(t, i) : i \in 1..NRows(t)}
           IN  /\ NRows(t) = (IF req.top_k < NRows(df) THEN req.top_k ELSE NRows(df))
               /\ Cardinality(kept) = NRows(t)
               /\ \A i \in 1..NRows(t) :
                     /\ SameOn(t.rows[i], df.rows[InputPos(t, i)], df.cols)
                     /\ t.rows[i]["final_score"] = FusedScore(InputPos(t, i))
               /\ \A i, j \in 1..NRows(t) :
                     i < j => FLe(t.rows[j]["final_score"], t.rows[i]["final_score"])
               /\ \A i \in 1..NRows(t) : \A j \in (1..NRows(df)) \ kept :
                     ~FLt(t.rows[i]["final_score"], FusedScore(j))

(***************************************************************************)
(* Specification SpecPipeline: the stages applied to one listing table in  *)
(* any order.  df is the table the caller carries from stage to stage,     *)
(* item_embeddings the embeddings of the last encode_items call,           *)
(* model_loads the number of times the embedding model was constructed,    *)
(* req the last call and res its outcome.  Each enrichment stage is        *)
(* applied at most once, and encode_items at most MaxEncodeCalls times.    *)
(***************************************************************************)
PipelineTables == TablesOver({L1, L2, L3}, RawCols, AllShapes)

DefaultWeights ==
    [disc |-> Num(4, 10), brand |-> Num(2, 10), mat |-> Num(2, 10), cond |-> Num(2, 10)]

DefaultFusion == [alpha |-> Num(4, 10), beta |-> Num(3, 10), gamma |-> Num(3, 10)]

PipelineLiked == {{1}, {9}}

InitPipeline ==
    /\ df \in PipelineTables
    /\ item_embeddings = <<>>
    /\ model_loads = 0
    /\ req = [op |-> "none"]
    /\ res = Pending

\* encode_items constructs SentenceTransformer(model_name) on every call
PipelineEncodeItems ==
    /\ model_loads < MaxEncodeCalls
    /\ model_loads' = model_loads + 1
    /\ item_embeddings' = EncodeTable(df)
    /\ req' = [op |-> "encode_items"]
    /\ res' = [status |-> "ok"]
    /\ UNCHANGED df

PipelineApplyAttributeReasoner ==
    /\ "color" \notin df.cols
    /\ df' = apply_attribute_reasoner(df)
    /\ req' = [op |-> "apply_attribute_reasoner"]
    /\ res' = [status |-> "ok"]
    /\ UNCHANGED <<item_embeddings, model_loads>>

PipelineAddTasteScores ==
    /\ model_loads > 0
    /\ "taste_score" \notin df.cols
    /\ \E l \in PipelineLiked :
          LET r == add_taste_scores(df, item_embeddings, l)
          IN  /\ df' = IF r.status = "ok" THEN r.table ELSE df
              /\ req' = [op |-> "add_taste_scores"]
              /\ res' = [status |-> r.status]
    /\ UNCHANGED <<item_embeddings, model_loads>>

PipelineAddSmartBuyIndex ==
    /\ "smart_buy_index" \notin df.cols
    /\ LET r == add_smart_buy_index(df, DefaultWeights)
       IN  /\ df' = IF r.status = "ok" THEN r.table ELSE df
           /\ req' = [op |-> "add_smart_buy_index"]
           /\ res' = [status |-> r.status]
    /\ UNCHANGED <<item_embeddings, model_loads>>

PipelineNaiveRank ==
    /\ model_loads > 0
    /\ \E q \in UnitVectors : \E r \in naive_rank(df, item_embeddings, q, MaxRows) :
          /\ req' = [op |-> "naive_rank"]
          /\ res' = [status |-> r.status]
    /\ UNCHANGED <<df, item_embeddings, model_loads>>

PipelineBiasAwareRank ==
    /\ model_loads > 0
    /\ \E q \in UnitVectors :
          \E r \in bias_aware_rank(df, item_embeddings, q, DefaultFusion, MaxRows) :
              /\ req' = [op |-> "bias_aware_rank"]
              /\ res' = [status |-> r.status]
    /\ UNCHANGED <<df, item_embeddings, model_loads>>

NextPipeline ==
    \/ PipelineEncodeItems
    \/ PipelineApplyAttributeReasoner
    \/ PipelineAddTasteScores
    \/ PipelineAddSmartBuyIndex
    \/ PipelineNaiveRank
    \/ PipelineBiasAwareRank

SpecPipeline == InitPipeline /\ [][NextPipeline]_vars

\* C1: the embedding model is loaded at most once over any sequence of
\* encode_items calls
C1_ModelLoadedAtMostOnce == model_loads <= 1

\* C8: bias_aware_rank fails when the table lacks taste_score or
\* smart_buy_index and succeeds once add_taste_scores and add_smart_buy_index
\* have both run, in either order
C8_BiasAwareRankNeedsBothStages ==
    req.op = "bias_aware_rank" =>
        (res.status = "ok" <=> {"taste_score", "smart_buy_index"} \subseteq df.cols)

====
